---- MODULE Spec2Model ----
(***************************************************************************)
(* LocalSymbolicMemory (sdk/eidos_sdk/memory/local_symbolic_memory.py): an *)
(* in-process document store.  db maps a collection name to the list of    *)
(* its documents; every operation is one call on that mapping.             *)
(*                                                                         *)
(* A Python value is a record [t, s, m]: t is its type ("str", "int",      *)
(* "none" or "dict"), s the text of a string or the digits of an integer,  *)
(* m the items of a dict as a sequence of <<key, value>> pairs in          *)
(* insertion order (keys are unique).                                      *)
(***************************************************************************)
EXTENDS Naturals, Sequences, FiniteSets, TLC

VARIABLES db,    \* LocalSymbolicMemory.db: collection name -> sequence of documents
          last,  \* the last call: its name, arguments, exception and return value
          prev   \* db as it was when the last call started

(* The same store as Python objects, for what depends on which object is
   which: heap is the sequence of the live objects (an address is a place in
   it), an object being a dict or a list of <<key, value>> items whose value
   is a string or the address of another object. *)
VARIABLES heap,   \* the objects
          lists,  \* LocalSymbolicMemory.db: collection name -> address of its list, 0 for none
          held,   \* the objects the caller holds: address, and how it came by it
          step,   \* the last step of the object-level machine
          seen    \* the documents of the store before the caller's last mutation

(* One traversal of find: the generator that a call of find returns, the
   calls of other coroutines, and the instances of the class. *)
VARIABLES cursor,  \* the generator: the list it goes over, its place, what it has yielded
          tasks,   \* the coroutines of concurrent callers: not started, or finished
          attrs    \* the attribute db of each instance, if it has one of its own

valueVars == <<db, last, prev>>
objectVars == <<heap, lists, held, step, seen>>
processVars == <<cursor, tasks, attrs>>
vars == <<db, last, prev, heap, lists, held, step, seen, cursor, tasks, attrs>>

-----------------------------------------------------------------------------
(* Bounds of the model *)

\* most documents the store holds, over all collections
MaxDocs == 2
\* most documents in one insert batch
MaxBatch == 2
\* most live objects (dicts and lists) of the object-level machine
MaxObjects == 6
\* most objects the caller holds at a time
MaxHeld == 1

-----------------------------------------------------------------------------
(* Python values *)

Str(x) == [t |-> "str", s |-> x, m |-> <<>>]
Int(x) == [t |-> "int", s |-> x, m |-> <<>>]
None == [t |-> "none", s |-> "", m |-> <<>>]
Dict(items) == [t |-> "dict", s |-> "", m |-> items]

\* the keys of a dict
Keys(d) == {d.m[i][1] : i \in 1..Len(d.m)}
\* d[k], for a key of d
Item(d, k) == d.m[CHOOSE i \in 1..Len(d.m) : d.m[i][1] = k][2]
\* d.get(k): None when k is no key of d
Get(d, k) == IF k \in Keys(d) THEN Item(d, k) ELSE None

\* a == b: dicts are equal when they hold the same keys with equal values,
\* whatever the order of their items
RECURSIVE PyEq(_, _)
PyEq(a, b) ==
    IF a.t # b.t THEN FALSE
    ELSE IF a.t = "dict"
         THEN /\ Keys(a) = Keys(b)
              /\ \A k \in Keys(a) : PyEq(Item(a, k), Item(b, k))
         ELSE a.s = b.s

\* copy.deepcopy: a new value built level by level from the old one
RECURSIVE deepcopy(_)
deepcopy(v) ==
    IF v.t = "dict"
    THEN Dict([i \in 1..Len(v.m) |-> <<v.m[i][1], deepcopy(v.m[i][2])>>])
    ELSE v

\* DictUpdate putting p in the place of d
DictUpdate_replace(d, p) == p

\* d.update(p): a key of d keeps its place and takes p's value, a new key
\* is added at the end, in p's order
MergeItems(dm, pm) ==
    [i \in 1..Len(dm) |->
        IF \E j \in 1..Len(pm) : pm[j][1] = dm[i][1]
        THEN pm[CHOOSE j \in 1..Len(pm) : pm[j][1] = dm[i][1]]
        ELSE dm[i]]
    \o SelectSeq(pm, LAMBDA kv : \A i \in 1..Len(dm) : dm[i][1] # kv[1])

DictUpdate(d, p) == Dict(MergeItems(d.m, p.m))

\* "key in s" for a string s is a substring test.  Of the texts and keys
\* below no key occurs inside a text, so the table is empty.
SubstringPairs == {}
KeyIn(k, v) ==
    IF v.t = "dict" THEN k \in Keys(v) ELSE <<k, v.s>> \in SubstringPairs

-----------------------------------------------------------------------------
(* The two predicates *)

\* ItemIn comparing values by identity: an equal mapping is another object
ItemIn_identity(item, doc) ==
    \E i \in 1..Len(doc.m) :
        /\ doc.m[i][1] = item[1]
        /\ doc.m[i][2].t # "dict"
        /\ PyEq(doc.m[i][2], item[2])

\* item in doc.items()
ItemIn(item, doc) ==
    \E i \in 1..Len(doc.m) : doc.m[i][1] = item[1] /\ PyEq(doc.m[i][2], item[2])

\* all(item in doc.items() for item in query.items()): count and delete
FlatMatch(doc, query) == \A i \in 1..Len(query.m) : ItemIn(query.m[i], doc)

\* _matches_query, one query item after the other: "T", "F", or "E" when the
\* call raises TypeError (key in None, key in 5, indexing a string with a key)
RECURSIVE MatchFrom(_, _, _)
MatchFrom(doc, query, i) ==
    IF i > Len(query.m) THEN "T"
    ELSE LET key == query.m[i][1]
             value == query.m[i][2]
         IN  IF doc.t \in {"none", "int"} THEN "E"
             ELSE IF ~KeyIn(key, doc) THEN "F"
             ELSE IF doc.t # "dict" THEN "E"
             ELSE IF value.t = "dict"
                  THEN LET r == MatchFrom(Item(doc, key), value, 1)
                       IN  IF r = "T" THEN MatchFrom(doc, query, i + 1) ELSE r
                  ELSE IF ~PyEq(Item(doc, key), value) THEN "F"
                       ELSE MatchFrom(doc, query, i + 1)

\* _matches_query deciding as count and delete do
_matches_query_flat(doc, query) == IF FlatMatch(doc, query) THEN "T" ELSE "F"

_matches_query(doc, query) == MatchFrom(doc, query, 1)

\* the first document of docs at which the loop "for doc in docs: if
\* _matches_query(doc, query)" does not just go on (a match or a TypeError);
\* Len(docs) + 1 when it runs to the end
FirstStop(docs, query) ==
    IF \E i \in 1..Len(docs) : _matches_query(docs[i], query) # "F"
    THEN CHOOSE i \in 1..Len(docs) :
            /\ _matches_query(docs[i], query) # "F"
            /\ \A j \in 1..(i - 1) : _matches_query(docs[j], query) = "F"
    ELSE Len(docs) + 1

\* the first document at which _matches_query raises; Len(docs) + 1 if none
FirstError(docs, query) ==
    IF \E i \in 1..Len(docs) : _matches_query(docs[i], query) = "E"
    THEN CHOOSE i \in 1..Len(docs) :
            /\ _matches_query(docs[i], query) = "E"
            /\ \A j \in 1..(i - 1) : _matches_query(docs[j], query) # "E"
    ELSE Len(docs) + 1

\* _apply_projection
_apply_projection(doc, projection) ==
    Dict(SelectSeq(doc.m, LAMBDA kv :
            /\ kv[1] \in Keys(projection)
            /\ PyEq(Item(projection, kv[1]), Int("1"))))

-----------------------------------------------------------------------------
(* The operations, as functions of the store d.  Each gives the store after
   the call (db), the exception it raised ("" for none) and what it returned
   (out: the documents, None being the empty sequence; n: the count). *)

Result(d, raised, out, n) == [db |-> d, raised |-> raised, out |-> out, n |-> n]

\* if symbol_collection not in self.db: self.db[symbol_collection] = []
WithCollection(d, c) == IF c \in DOMAIN d THEN d ELSE d @@ (c :> <<>>)

\* any(doc.get("_id") == document.get("_id") for doc in self.db[symbol_collection])
IdExists(docs, document) ==
    \E i \in 1..Len(docs) : PyEq(Get(docs[i], "_id"), Get(document, "_id"))

\* the documents the loop reaches that _matches_query accepts, in order
Matching(docs, query) ==
    LET e == FirstError(docs, query)
        Pick[i \in 0..Len(docs)] ==
            IF i = 0 THEN <<>>
            ELSE IF i < e /\ _matches_query(docs[i], query) = "T"
                 THEN Append(Pick[i - 1], docs[i])
                 ELSE Pick[i - 1]
    IN  Pick[Len(docs)]

start(d) == Result(<<>>, "", <<>>, 0)

stop(d) == Result(<<>>, "", <<>>, 0)

\* count creating the collection it does not find
count_creating(d, c, query) ==
    LET d1 == WithCollection(d, c)
    IN  Result(d1, "", <<>>,
               Cardinality({i \in 1..Len(d1[c]) : FlatMatch(d1[c][i], query)}))

count(d, c, query) ==
    IF c \notin DOMAIN d THEN Result(d, "", <<>>, 0)
    ELSE Result(d, "", <<>>,
                Cardinality({i \in 1..Len(d[c]) : FlatMatch(d[c][i], query)}))

\* find, run to its end by one caller; projection is None when not given
find(d, c, query, projection) ==
    IF c \notin DOMAIN d THEN Result(d, "", <<>>, 0)
    ELSE LET hits == Matching(d[c], query)
             out == [i \in 1..Len(hits) |->
                        deepcopy(IF projection.t = "dict" /\ Len(projection.m) > 0
                                 THEN _apply_projection(hits[i], projection)
                                 ELSE hits[i])]
         IN  Result(d, IF FirstError(d[c], query) <= Len(d[c]) THEN "TypeError" ELSE "",
                    out, 0)

find_one(d, c, query) ==
    IF c \notin DOMAIN d THEN Result(d, "", <<>>, 0)
    ELSE LET k == FirstStop(d[c], query)
         IN  IF k > Len(d[c]) THEN Result(d, "", <<>>, 0)
             ELSE IF _matches_query(d[c][k], query) = "E"
                  THEN Result(d, "TypeError", <<>>, 0)
                  ELSE Result(d, "", <<deepcopy(d[c][k])>>, 0)

\* insert_one without its check
insert_one_unchecked(d, c, document) ==
    Result([WithCollection(d, c) EXCEPT ![c] = Append(@, deepcopy(document))],
           "", <<>>, 0)

insert_one(d, c, document) ==
    LET d1 == WithCollection(d, c)
    IN  IF IdExists(d1[c], document)
        THEN Result(d1, "DuplicateKeyError", <<>>, 0)
        ELSE Result([d1 EXCEPT ![c] = Append(@, deepcopy(document))], "", <<>>, 0)

\* insert adding each document as soon as it has passed the check
insert_partial(d, c, documents) ==
    LET d1 == WithCollection(d, c)
        Bad == {j \in 1..Len(documents) : IdExists(d1[c], documents[j])}
        n == IF Bad = {} THEN Len(documents)
             ELSE (CHOOSE j \in Bad : \A x \in Bad : j <= x) - 1
    IN  Result([d1 EXCEPT ![c] = @ \o [j \in 1..n |-> deepcopy(documents[j])]],
               IF Bad = {} THEN "" ELSE "DuplicateKeyError", <<>>, 0)

\* insert appending the batch last document first
insert_reversed(d, c, documents) ==
    LET d1 == WithCollection(d, c)
        n == Len(documents)
    IN  IF \E j \in 1..n : IdExists(d1[c], documents[j])
        THEN Result(d1, "DuplicateKeyError", <<>>, 0)
        ELSE Result([d1 EXCEPT ![c] =
                        @ \o [j \in 1..n |-> deepcopy(documents[n + 1 - j])]],
                    "", <<>>, 0)

insert(d, c, documents) ==
    LET d1 == WithCollection(d, c)
    IN  IF \E j \in 1..Len(documents) : IdExists(d1[c], documents[j])
        THEN Result(d1, "DuplicateKeyError", <<>>, 0)
        ELSE Result([d1 EXCEPT ![c] =
                        @ \o [j \in 1..Len(documents) |-> deepcopy(documents[j])]],
                    "", <<>>, 0)

\* upsert_one replacing every document that matches
upsert_one_all(d, c, document, query) ==
    LET d1 == WithCollection(d, c)
    IN  IF \E i \in 1..Len(d1[c]) : _matches_query(d1[c][i], query) = "T"
        THEN Result([d1 EXCEPT ![c] =
                        [i \in 1..Len(@) |->
                            IF _matches_query(@[i], query) = "T"
                            THEN deepcopy(document) ELSE @[i]]], "", <<>>, 0)
        ELSE IF IdExists(d1[c], document)
             THEN Result(d1, "DuplicateKeyError", <<>>, 0)
             ELSE Result([d1 EXCEPT ![c] = Append(@, deepcopy(document))], "", <<>>, 0)

upsert_one(d, c, document, query) ==
    LET d1 == WithCollection(d, c)
        k == FirstStop(d1[c], query)
    IN  IF k <= Len(d1[c])
        THEN IF _matches_query(d1[c][k], query) = "E"
             THEN Result(d1, "TypeError", <<>>, 0)
             ELSE Result([d1 EXCEPT ![c][k] = deepcopy(document)], "", <<>>, 0)
        ELSE IF IdExists(d1[c], document)
             THEN Result(d1, "DuplicateKeyError", <<>>, 0)
             ELSE Result([d1 EXCEPT ![c] = Append(@, deepcopy(document))], "", <<>>, 0)

update_many(d, c, query, document) ==
    IF c \notin DOMAIN d THEN Result(d, "", <<>>, 0)
    ELSE LET e == FirstError(d[c], query)
         IN  Result([d EXCEPT ![c] =
                        [i \in 1..Len(@) |->
                            IF i < e /\ _matches_query(@[i], query) = "T"
                            THEN DictUpdate(@[i], deepcopy(document))
                            ELSE @[i]]],
                    IF e <= Len(d[c]) THEN "TypeError" ELSE "", <<>>, 0)

\* delete with the predicate of find
delete_recursive(d, c, query) ==
    IF c \notin DOMAIN d THEN Result(d, "", <<>>, 0)
    ELSE Result([d EXCEPT ![c] =
                    SelectSeq(@, LAMBDA doc : _matches_query(doc, query) # "T")],
                "", <<>>, 0)

delete(d, c, query) ==
    IF c \notin DOMAIN d THEN Result(d, "", <<>>, 0)
    ELSE Result([d EXCEPT ![c] = SelectSeq(@, LAMBDA doc : ~FlatMatch(doc, query))],
                "", <<>>, 0)

-----------------------------------------------------------------------------
(* The calls the callers make: collections, documents, queries, patches *)

Collections == {"users", "tasks"}

Alice == Dict(<< <<"_id", Str("u1")>>, <<"name", Str("Alice")>>,
                 <<"address", Dict(<< <<"city", Str("NYC")>> >>)>> >>)
\* same _id as Alice
Bob == Dict(<< <<"_id", Str("u1")>>, <<"name", Str("Bob")>> >>)
\* a second Alice: a mapping as _id, one more field in the address
Alice2 == Dict(<< <<"_id", Dict(<< <<"k", Str("1")>>, <<"j", Str("2")>> >>)>>,
                  <<"name", Str("Alice")>>,
                  <<"address", Dict(<< <<"city", Str("NYC")>>, <<"zip", Str("1")>> >>)>> >>)
\* no _id
Dan == Dict(<< <<"name", Str("Dan")>> >>)
\* its _id is a part of Alice2's
Eve == Dict(<< <<"_id", Dict(<< <<"k", Str("1")>> >>)>>, <<"name", Str("Eve")>> >>)

Documents == {Alice, Bob, Alice2, Dan, Eve}

\* {"_id": document["_id"]}
IdQuery(document) == Dict(<< <<"_id", Item(document, "_id")>> >>)

QAll == Dict(<<>>)
QName == Dict(<< <<"name", Str("Alice")>> >>)
QCity == Dict(<< <<"address", Dict(<< <<"city", Str("NYC")>> >>)>> >>)

Queries == {QAll, QName, QCity}
             \cup {IdQuery(document) : document \in {Alice, Alice2, Eve}}

PName == Dict(<< <<"name", Str("Alicia")>> >>)
PAddress == Dict(<< <<"address", Dict(<< <<"city", Str("NYC")>>, <<"zip", Str("1")>> >>)>> >>)

Patches == {PName, PAddress}
\* the queries of update_many
UpdateQueries == {QName, QCity}

\* the batches of insert: up to MaxBatch documents
BatchDocuments == {Alice, Bob, Alice2}
Batches == UNION {[1..n -> BatchDocuments] : n \in 0..MaxBatch}

\* the documents in the store
Size(d, c) == IF c \in DOMAIN d THEN Len(d[c]) ELSE 0
Total(d) == Size(d, "users") + Size(d, "tasks")

-----------------------------------------------------------------------------
(* The state machine *)

Call(op, c, document, documents, query, patch, r) ==
    [op |-> op, c |-> c, document |-> document, documents |-> documents,
     query |-> query, patch |-> patch, projection |-> None, self |-> "",
     raised |-> r.raised, out |-> r.out, n |-> r.n]

\* no call has returned that the caller has not yet taken
NoCall == Call("", "", None, <<>>, None, None, Result(<<>>, "", <<>>, 0))

InitValues ==
    /\ db = <<>>
    /\ prev = <<>>
    /\ last = NoCall

\* one call, made when the caller is not inside another: the store becomes
\* r.db, the call and its outcome are recorded
Step(r, call) ==
    /\ last = NoCall
    /\ Total(r.db) <= MaxDocs
    /\ db' = r.db
    /\ prev' = db
    /\ last' = call
    /\ UNCHANGED <<objectVars, processVars>>

\* the caller takes the outcome of its call and goes on
Return ==
    /\ last # NoCall
    /\ last' = NoCall
    /\ prev' = db
    /\ UNCHANGED db
    /\ UNCHANGED <<objectVars, processVars>>

Start ==
    LET r == start(db) IN Step(r, Call("start", "", None, <<>>, None, None, r))

Stop ==
    LET r == stop(db) IN Step(r, Call("stop", "", None, <<>>, None, None, r))

Count ==
    \E c \in Collections, q \in Queries :
        LET r == count(db, c, q) IN Step(r, Call("count", c, None, <<>>, q, None, r))

Find ==
    \E c \in Collections, q \in Queries :
        LET r == find(db, c, q, None) IN Step(r, Call("find", c, None, <<>>, q, None, r))

FindOne ==
    \E c \in Collections, q \in Queries :
        LET r == find_one(db, c, q) IN Step(r, Call("find_one", c, None, <<>>, q, None, r))

InsertOne ==
    \E c \in Collections, document \in Documents :
        LET r == insert_one(db, c, document)
        IN  Step(r, Call("insert_one", c, document, <<>>, None, None, r))

Insert ==
    \E c \in Collections, documents \in Batches :
        LET r == insert(db, c, documents)
        IN  Step(r, Call("insert", c, None, documents, None, None, r))

UpsertOne ==
    \E c \in Collections, document \in Documents, q \in Queries :
        LET r == upsert_one(db, c, document, q)
        IN  Step(r, Call("upsert_one", c, document, <<>>, q, None, r))

UpdateMany ==
    \E c \in Collections, q \in UpdateQueries, p \in Patches :
        LET r == update_many(db, c, q, p)
        IN  Step(r, Call("update_many", c, None, <<>>, q, p, r))

Delete ==
    \E c \in Collections, q \in Queries :
        LET r == delete(db, c, q) IN Step(r, Call("delete", c, None, <<>>, q, None, r))

\* find with a projection: {}, {"name": 1}, {"name": 0}, and one that names
\* the fields in another order than the documents, with a field they lack
ProjEmpty == Dict(<<>>)
ProjName == Dict(<< <<"name", Int("1")>> >>)
ProjNameOff == Dict(<< <<"name", Int("0")>> >>)
ProjAddressName == Dict(<< <<"address", Int("1")>>, <<"name", Int("1")>>, <<"zip", Int("1")>> >>)

Projections == {ProjEmpty, ProjName, ProjNameOff, ProjAddressName}

FindProjected ==
    \E c \in Collections, q \in {QAll, QName}, projection \in Projections :
        LET r == find(db, c, q, projection)
        IN  Step(r, [Call("find", c, None, <<>>, q, None, r) EXCEPT !.projection = projection])

\* a document whose address is None
Ned == Dict(<< <<"_id", Str("u2")>>, <<"address", None>> >>)

InsertOneNull ==
    \E c \in Collections :
        LET r == insert_one(db, c, Ned)
        IN  Step(r, Call("insert_one", c, Ned, <<>>, None, None, r))

-----------------------------------------------------------------------------
(* The store as objects.  Only what an operation does with object identity
   is new here: which object it reads, copies, stores and returns.  What it
   decides from values it decides with the predicates above. *)

Scalar(x) == [t |-> "str", s |-> x, a |-> 0]
Ref(a) == [t |-> "ref", s |-> "", a |-> a]
Object(kind, items) == [kind |-> kind, m |-> items]

\* the addresses an object refers to
Refs(o) == {o.m[i][2].a : i \in {j \in 1..Len(o.m) : o.m[j][2].t = "ref"}}

\* the objects reachable from the objects of S
RECURSIVE Reach(_, _)
Reach(h, S) ==
    LET N == S \cup UNION {Refs(h[a]) : a \in S}
    IN  IF N = S THEN S ELSE Reach(h, N)

\* the value of the dict at address a
RECURSIVE Value(_, _)
Value(h, a) ==
    Dict([i \in 1..Len(h[a].m) |->
            <<h[a].m[i][1],
              IF h[a].m[i][2].t = "ref" THEN Value(h, h[a].m[i][2].a)
                                        ELSE Str(h[a].m[i][2].s)>>])

\* the values of the documents of the list at address l
Elements(h, l) == [i \in 1..Len(h[l].m) |-> Value(h, h[l].m[i][2].a)]

\* the documents of collection c; the whole store as values
ListValues(h, ls, c) == IF ls[c] = 0 THEN <<>> ELSE Elements(h, ls[c])
View(h, ls) == [c \in {x \in Collections : ls[x] # 0} |-> Elements(h, ls[c])]

\* an object with its references renamed by f
Rename(o, f) ==
    Object(o.kind,
           [i \in 1..Len(o.m) |->
               <<o.m[i][1],
                 IF o.m[i][2].t = "ref" THEN Ref(f[o.m[i][2].a]) ELSE o.m[i][2]>>])

Rank(S, x) == Cardinality({y \in S : y <= x})

\* copy.copy: a new object with the items of the old one
ObjectCopy_shallow(h, a) == [heap |-> Append(h, h[a]), a |-> Len(h) + 1]

\* copy.deepcopy of the object at a: every object reachable from it is
\* copied once (the memo), the copies refer to one another
ObjectCopy(h, a) ==
    LET R == Reach(h, {a})
        f == [x \in R |-> Len(h) + Rank(R, x)]
        Nth(j) == CHOOSE x \in R : Rank(R, x) = j
    IN  [heap |-> h \o [j \in 1..Cardinality(R) |-> Rename(h[Nth(j)], f)],
         a |-> f[a]]

\* new objects for a document given as a value (its mappings hold strings)
NewObjects(h, v) ==
    LET Nested == {i \in 1..Len(v.m) : v.m[i][2].t = "dict"}
        top == Object("dict",
                 [i \in 1..Len(v.m) |->
                     <<v.m[i][1],
                       IF i \in Nested THEN Ref(Len(h) + 1 + Rank(Nested, i))
                                       ELSE Scalar(v.m[i][2].s)>>])
        sub(j) == LET i == CHOOSE x \in Nested : Rank(Nested, x) = j
                  IN  Object("dict", [k \in 1..Len(v.m[i][2].m) |->
                                        <<v.m[i][2].m[k][1], Scalar(v.m[i][2].m[k][2].s)>>])
    IN  [heap |-> Append(h, top) \o [j \in 1..Cardinality(Nested) |-> sub(j)],
         a |-> Len(h) + 1]

ObjectResult(h, ls, raised, out) == [heap |-> h, lists |-> ls, raised |-> raised, out |-> out]

\* if symbol_collection not in self.db: self.db[symbol_collection] = []
WithList(h, ls, c) ==
    IF ls[c] # 0 THEN [heap |-> h, lists |-> ls]
    ELSE [heap |-> Append(h, Object("list", <<>>)), lists |-> [ls EXCEPT ![c] = Len(h) + 1]]

NoLists == [c \in Collections |-> 0]

start_object(h, ls) == ObjectResult(h, NoLists, "", <<>>)

stop_object(h, ls) == ObjectResult(h, NoLists, "", <<>>)

\* find: a copy of every matching document, in order
RECURSIVE FindFrom(_, _, _, _, _)
FindFrom(h, l, query, i, out) ==
    IF i > Len(h[l].m) THEN [heap |-> h, raised |-> "", out |-> out]
    ELSE LET doc == h[l].m[i][2].a
             r == _matches_query(Value(h, doc), query)
         IN  IF r = "E" THEN [heap |-> h, raised |-> "TypeError", out |-> out]
             ELSE IF r = "F" THEN FindFrom(h, l, query, i + 1, out)
             ELSE LET cp == ObjectCopy(h, doc)
                  IN  FindFrom(cp.heap, l, query, i + 1, Append(out, cp.a))

find_object(h, ls, c, query) ==
    IF ls[c] = 0 THEN ObjectResult(h, ls, "", <<>>)
    ELSE LET r == FindFrom(h, ls[c], query, 1, <<>>)
         IN  ObjectResult(r.heap, ls, r.raised, r.out)

find_one_object(h, ls, c, query) ==
    IF ls[c] = 0 THEN ObjectResult(h, ls, "", <<>>)
    ELSE LET docs == Elements(h, ls[c])
             k == FirstStop(docs, query)
         IN  IF k > Len(docs) THEN ObjectResult(h, ls, "", <<>>)
             ELSE IF _matches_query(docs[k], query) = "E"
                  THEN ObjectResult(h, ls, "TypeError", <<>>)
                  ELSE LET cp == ObjectCopy(h, h[ls[c]].m[k][2].a)
                       IN  ObjectResult(cp.heap, ls, "", <<cp.a>>)

\* document is the address of the caller's dict
insert_one_object(h, ls, c, document) ==
    LET w == WithList(h, ls, c)
        l == w.lists[c]
    IN  IF IdExists(Elements(w.heap, l), Value(w.heap, document))
        THEN ObjectResult(w.heap, w.lists, "DuplicateKeyError", <<>>)
        ELSE LET cp == ObjectCopy(w.heap, document)
             IN  ObjectResult([cp.heap EXCEPT ![l].m = Append(@, <<"", Ref(cp.a)>>)],
                              w.lists, "", <<>>)

\* documents is the address of the caller's list
insert_object(h, ls, c, documents) ==
    LET w == WithList(h, ls, c)
        l == w.lists[c]
        batch == Elements(w.heap, documents)
    IN  IF \E j \in 1..Len(batch) : IdExists(Elements(w.heap, l), batch[j])
        THEN ObjectResult(w.heap, w.lists, "DuplicateKeyError", <<>>)
        ELSE LET cp == ObjectCopy(w.heap, documents)
             IN  ObjectResult([cp.heap EXCEPT ![l].m = @ \o cp.heap[cp.a].m],
                              w.lists, "", <<>>)

upsert_one_object(h, ls, c, document, query) ==
    LET w == WithList(h, ls, c)
        l == w.lists[c]
        docs == Elements(w.heap, l)
        k == FirstStop(docs, query)
    IN  IF k <= Len(docs)
        THEN IF _matches_query(docs[k], query) = "E"
             THEN ObjectResult(w.heap, w.lists, "TypeError", <<>>)
             ELSE LET cp == ObjectCopy(w.heap, document)
                  IN  ObjectResult([cp.heap EXCEPT ![l].m[k] = <<"", Ref(cp.a)>>],
                                   w.lists, "", <<>>)
        ELSE IF IdExists(docs, Value(w.heap, document))
             THEN ObjectResult(w.heap, w.lists, "DuplicateKeyError", <<>>)
             ELSE LET cp == ObjectCopy(w.heap, document)
                  IN  ObjectResult([cp.heap EXCEPT ![l].m = Append(@, <<"", Ref(cp.a)>>)],
                                   w.lists, "", <<>>)

\* update_many: document after document, each matching one updated in place
\* with its own copy of the patch
RECURSIVE UpdateFrom(_, _, _, _, _)
UpdateFrom(h, l, query, patch, i) ==
    IF i > Len(h[l].m) THEN [heap |-> h, raised |-> ""]
    ELSE LET doc == h[l].m[i][2].a
             r == _matches_query(Value(h, doc), query)
         IN  IF r = "E" THEN [heap |-> h, raised |-> "TypeError"]
             ELSE IF r = "F" THEN UpdateFrom(h, l, query, patch, i + 1)
             ELSE LET cp == ObjectCopy(h, patch)
                  IN  UpdateFrom([cp.heap EXCEPT ![doc].m = MergeItems(@, cp.heap[cp.a].m)],
                                 l, query, patch, i + 1)

update_many_object(h, ls, c, query, patch) ==
    IF ls[c] = 0 THEN ObjectResult(h, ls, "", <<>>)
    ELSE LET r == UpdateFrom(h, ls[c], query, patch, 1)
         IN  ObjectResult(r.heap, ls, r.raised, <<>>)

\* delete: self.db[symbol_collection] becomes a new list of the same objects
delete_object(h, ls, c, query) ==
    IF ls[c] = 0 THEN ObjectResult(h, ls, "", <<>>)
    ELSE ObjectResult(
            Append(h, Object("list",
                SelectSeq(h[ls[c]].m, LAMBDA it : ~FlatMatch(Value(h, it[2].a), query)))),
            [ls EXCEPT ![c] = Len(h) + 1], "", <<>>)

(* Addresses mean nothing but which object is which: after every step the
   objects still reachable are kept, numbered in the order a traversal from
   the lists of the store and then from the caller's objects meets them. *)
CollectionOrder == <<"users", "tasks">>

RECURSIVE Traverse(_, _, _)
Traverse(h, done, todo) ==
    IF todo = <<>> THEN done
    ELSE LET a == Head(todo)
         IN  IF \E i \in 1..Len(done) : done[i] = a
             THEN Traverse(h, done, Tail(todo))
             ELSE Traverse(h, Append(done, a),
                           Tail(todo) \o [i \in 1..Len(SelectSeq(h[a].m, LAMBDA it : it[2].t = "ref"))
                                            |-> SelectSeq(h[a].m, LAMBDA it : it[2].t = "ref")[i][2].a])

Live(h, ls, hd) ==
    LET roots == [i \in 1..Len(SelectSeq(CollectionOrder, LAMBDA c : ls[c] # 0))
                    |-> ls[SelectSeq(CollectionOrder, LAMBDA c : ls[c] # 0)[i]]]
                 \o [i \in 1..Len(hd) |-> hd[i].a]
        order == Traverse(h, <<>>, roots)
        pos == [a \in {order[i] : i \in 1..Len(order)} |->
                    CHOOSE i \in 1..Len(order) : order[i] = a]
    IN  [heap |-> [j \in 1..Len(order) |-> Rename(h[order[j]], pos)],
         lists |-> [c \in Collections |-> IF ls[c] = 0 THEN 0 ELSE pos[ls[c]]],
         held |-> [i \in 1..Len(hd) |-> [a |-> pos[hd[i].a], tag |-> hd[i].tag]]]

-----------------------------------------------------------------------------
(* The object-level machine: a caller that makes documents and batches,
   passes them to the store, takes what the store returns, and changes the
   objects it holds. *)

ObjectCollections == {"users"}
ObjectQueries == {QAll, QCity}
\* the keys whose value the caller overwrites, and the value it writes
MutableKeys == {"_id", "city"}
Written == Scalar("x")

NoStep == [op |-> "", tag |-> "", nested |-> FALSE]

InitObjects ==
    /\ heap = <<>>
    /\ lists = NoLists
    /\ held = <<>>
    /\ step = NoStep
    /\ seen = <<>>

\* no generator, no coroutine, no instance with a db of its own
NoCursor == [pc |-> "none", c |-> "", query |-> None, l |-> 0, i |-> 0,
             out |-> <<>>, snap |-> <<>>, raised |-> ""]
Instances == {"m1", "m2"}
Callers == {"a", "b", "c"}
NoTask == [pc |-> "none", op |-> "", document |-> None, raised |-> ""]
NoAttr == [has |-> FALSE, db |-> <<>>]

InitProcesses ==
    /\ cursor = NoCursor
    /\ tasks = [t \in Callers |-> NoTask]
    /\ attrs = [m \in Instances |-> NoAttr]

Init == InitValues /\ InitObjects /\ InitProcesses

\* a step of the object-level machine to heap h, lists ls and held objects hd
ObjectStep(h, ls, hd, st, sn) ==
    LET live == Live(h, ls, hd)
    IN  /\ Len(live.heap) <= MaxObjects
        /\ heap' = live.heap
        /\ lists' = live.lists
        /\ held' = live.held
        /\ step' = st
        /\ seen' = sn
        /\ UNCHANGED <<valueVars, processVars>>

IsDict(i) == heap[held[i].a].kind = "dict"
IsList(i) == heap[held[i].a].kind = "list"
Passed(i) == [held EXCEPT ![i].tag = "passed"]
Returned(out) == held \o [j \in 1..Len(out) |-> [a |-> out[j], tag |-> "returned"]]

\* the caller builds a document
NewDocument ==
    /\ Len(held) < MaxHeld
    /\ LET n == NewObjects(heap, Alice)
       IN  ObjectStep(n.heap, lists, Append(held, [a |-> n.a, tag |-> "new"]), NoStep, <<>>)

\* the caller puts one of its documents n times in a list, and holds the list
NewBatch ==
    \E i \in 1..Len(held), n \in 1..MaxBatch :
        /\ IsDict(i)
        /\ ObjectStep(Append(heap, Object("list", [j \in 1..n |-> <<"", Ref(held[i].a)>>])),
                      lists, [held EXCEPT ![i] = [a |-> Len(heap) + 1, tag |-> "new"]],
                      NoStep, <<>>)

\* the caller lets go of an object
Drop ==
    \E i \in 1..Len(held) :
        ObjectStep(heap, lists,
                   [j \in 1..(Len(held) - 1) |-> IF j < i THEN held[j] ELSE held[j + 1]],
                   NoStep, <<>>)

\* the caller changes an object it can reach from one it holds: a field of
\* a dict is overwritten, the last element of a list is removed
Mutate ==
    \E i \in 1..Len(held) : \E a \in Reach(heap, {held[i].a}) :
        LET st == [op |-> "mutate", tag |-> held[i].tag, nested |-> a # held[i].a]
        IN  \/ \E k \in 1..Len(heap[a].m) :
                  /\ heap[a].kind = "dict"
                  /\ heap[a].m[k][1] \in MutableKeys
                  /\ heap[a].m[k][2] # Written
                  /\ ObjectStep([heap EXCEPT ![a].m[k] = <<@[1], Written>>],
                                lists, held, st, View(heap, lists))
            \/ /\ heap[a].kind = "list"
               /\ heap[a].m # <<>>
               /\ ObjectStep([heap EXCEPT ![a].m = SubSeq(@, 1, Len(@) - 1)],
                             lists, held, st, View(heap, lists))

ObjectStart ==
    LET r == start_object(heap, lists)
    IN  lists # NoLists /\ ObjectStep(r.heap, r.lists, held, NoStep, <<>>)

ObjectStop ==
    LET r == stop_object(heap, lists)
    IN  lists # NoLists /\ ObjectStep(r.heap, r.lists, held, NoStep, <<>>)

ObjectFind ==
    \E c \in ObjectCollections, q \in ObjectQueries :
        LET r == find_object(heap, lists, c, q)
        IN  /\ r.out # <<>>
            /\ Len(held) + Len(r.out) <= MaxHeld
            /\ ObjectStep(r.heap, r.lists, Returned(r.out), NoStep, <<>>)

ObjectFindOne ==
    \E c \in ObjectCollections, q \in ObjectQueries :
        LET r == find_one_object(heap, lists, c, q)
        IN  /\ r.out # <<>>
            /\ Len(held) + Len(r.out) <= MaxHeld
            /\ ObjectStep(r.heap, r.lists, Returned(r.out), NoStep, <<>>)

ObjectInsertOne ==
    \E c \in ObjectCollections, i \in 1..Len(held) :
        /\ IsDict(i)
        /\ LET r == insert_one_object(heap, lists, c, held[i].a)
           IN  ObjectStep(r.heap, r.lists, Passed(i), NoStep, <<>>)

ObjectInsert ==
    \E c \in ObjectCollections, i \in 1..Len(held) :
        /\ IsList(i)
        /\ LET r == insert_object(heap, lists, c, held[i].a)
           IN  ObjectStep(r.heap, r.lists, Passed(i), NoStep, <<>>)

ObjectUpsertOne ==
    \E c \in ObjectCollections, i \in 1..Len(held), q \in ObjectQueries :
        /\ IsDict(i)
        /\ LET r == upsert_one_object(heap, lists, c, held[i].a, q)
           IN  ObjectStep(r.heap, r.lists, Passed(i), NoStep, <<>>)

ObjectUpdateMany ==
    \E c \in ObjectCollections, i \in 1..Len(held), q \in ObjectQueries :
        /\ IsDict(i)
        /\ LET r == update_many_object(heap, lists, c, q, held[i].a)
           IN  ObjectStep(r.heap, r.lists, Passed(i), NoStep, <<>>)

ObjectDelete ==
    \E c \in ObjectCollections, q \in ObjectQueries :
        LET r == delete_object(heap, lists, c, q)
        IN  ObjectStep(r.heap, r.lists, held, NoStep, <<>>)

NextObjects ==
    \/ NewDocument
    \/ NewBatch
    \/ Drop
    \/ Mutate
    \/ ObjectStart
    \/ ObjectStop
    \/ ObjectFind
    \/ ObjectFindOne
    \/ ObjectInsertOne
    \/ ObjectInsert
    \/ ObjectUpsertOne
    \/ ObjectUpdateMany
    \/ ObjectDelete

SpecObjects == Init /\ [][NextObjects]_vars

Next ==
    \/ Start
    \/ Stop
    \/ Count
    \/ Find
    \/ FindOne
    \/ InsertOne
    \/ Insert
    \/ UpsertOne
    \/ UpdateMany
    \/ Delete
    \/ Return

Spec == Init /\ [][Next]_vars

\* only the calls that insert, replace or remove documents, from an empty store
NextWrites ==
    \/ InsertOne
    \/ Insert
    \/ UpsertOne
    \/ Delete
    \/ Return

SpecWrites == Init /\ [][NextWrites]_vars

\* inserts, and find with a projection
NextProjection ==
    \/ InsertOne
    \/ FindProjected
    \/ Return

SpecProjection == Init /\ [][NextProjection]_vars

\* the calls on a store that may hold a document with a None field
NextNull ==
    \/ InsertOneNull
    \/ InsertOne
    \/ Count
    \/ Find
    \/ FindOne
    \/ UpsertOne
    \/ UpdateMany
    \/ Delete
    \/ Return

SpecNull == Init /\ [][NextNull]_vars

-----------------------------------------------------------------------------
(* One traversal of find, with the calls of others between its elements.
   find is a generator: its body runs from one yield to the next each time
   the caller asks for an element, and "for doc in self.db[c]" takes the list
   object once and then reads it by index, up to its length at that moment. *)

TraversalCollections == {"users"}
TraversalQueries == {QAll, QName}
TraversalDocuments == {Alice, Dan}
TraversalBatches == {<<Dan, Alice>>}

\* the records of c that match query, as the store is in heap h
MatchingNow(h, ls, c, query) == Matching(ListValues(h, ls, c), query)

\* the generator resumed at place i of the list at l: it runs to the next
\* matching document and yields a copy of it, or to the end of the list
RECURSIVE NextFrom(_, _, _, _)
NextFrom(h, l, query, i) ==
    IF i > Len(h[l].m) THEN [end |-> TRUE, raised |-> "", i |-> i, doc |-> None]
    ELSE LET doc == Value(h, h[l].m[i][2].a)
             r == _matches_query(doc, query)
         IN  IF r = "E" THEN [end |-> TRUE, raised |-> "TypeError", i |-> i, doc |-> None]
             ELSE IF r = "T" THEN [end |-> FALSE, raised |-> "", i |-> i + 1, doc |-> deepcopy(doc)]
             ELSE NextFrom(h, l, query, i + 1)

\* the generator after being resumed
Resumed(h, cur) ==
    LET n == NextFrom(h, cur.l, cur.query, cur.i)
    IN  IF n.end THEN [cur EXCEPT !.pc = "done", !.l = 0, !.i = 0, !.raised = n.raised]
        ELSE [cur EXCEPT !.i = n.i, !.out = Append(@, n.doc)]

\* the objects of a new list of new documents
RECURSIVE NewListFrom(_, _, _)
NewListFrom(h, documents, items) ==
    IF documents = <<>>
    THEN [heap |-> Append(h, Object("list", items)), a |-> Len(h) + 1]
    ELSE LET n == NewObjects(h, Head(documents))
         IN  NewListFrom(n.heap, Tail(documents), Append(items, <<"", Ref(n.a)>>))

\* a step to heap h and lists ls with the generator cur: the list the
\* generator goes over stays alive with it
TraversalStep(h, ls, cur) ==
    LET hd == IF cur.pc = "open" THEN <<[a |-> cur.l, tag |-> "cursor"]>> ELSE <<>>
        live == Live(h, ls, hd)
    IN  /\ cursor.pc # "done"
        /\ Len(live.heap) <= MaxObjects
        /\ \A c \in TraversalCollections : Len(ListValues(h, ls, c)) <= MaxDocs
        /\ heap' = live.heap
        /\ lists' = live.lists
        /\ cursor' = [cur EXCEPT !.l = IF cur.pc = "open" THEN live.held[1].a ELSE 0]
        /\ UNCHANGED <<held, step, seen, tasks, attrs>>
        /\ UNCHANGED valueVars

\* find(c, query) and the first element asked of it: the traversal starts
TraversalFind ==
    \E c \in TraversalCollections, q \in TraversalQueries :
        /\ cursor.pc = "none"
        /\ LET snap == MatchingNow(heap, lists, c, q)
               cur == [NoCursor EXCEPT !.c = c, !.query = q, !.snap = snap]
           IN  IF lists[c] = 0
               THEN TraversalStep(heap, lists, [cur EXCEPT !.pc = "done"])
               ELSE TraversalStep(heap, lists,
                        Resumed(heap, [cur EXCEPT !.pc = "open", !.l = lists[c], !.i = 1]))

\* the next element asked of the generator
TraversalNext ==
    /\ cursor.pc = "open"
    /\ TraversalStep(heap, lists, Resumed(heap, cursor))

\* the caller lets go of the generator that has ended
TraversalClose ==
    /\ cursor.pc = "done"
    /\ cursor' = NoCursor
    /\ UNCHANGED <<heap, lists, held, step, seen, tasks, attrs>>
    /\ UNCHANGED valueVars

TraversalStart ==
    LET r == start_object(heap, lists)
    IN  lists # NoLists /\ TraversalStep(r.heap, r.lists, cursor)

TraversalStop ==
    LET r == stop_object(heap, lists)
    IN  lists # NoLists /\ TraversalStep(r.heap, r.lists, cursor)

TraversalInsertOne ==
    \E c \in TraversalCollections, document \in TraversalDocuments :
        LET n == NewObjects(heap, document)
            r == insert_one_object(n.heap, lists, c, n.a)
        IN  TraversalStep(r.heap, r.lists, cursor)

TraversalInsert ==
    \E c \in TraversalCollections, documents \in TraversalBatches :
        LET n == NewListFrom(heap, documents, <<>>)
            r == insert_object(n.heap, lists, c, n.a)
        IN  TraversalStep(r.heap, r.lists, cursor)

TraversalUpsertOne ==
    \E c \in TraversalCollections, document \in TraversalDocuments, q \in TraversalQueries :
        LET n == NewObjects(heap, document)
            r == upsert_one_object(n.heap, lists, c, n.a, q)
        IN  TraversalStep(r.heap, r.lists, cursor)

TraversalUpdateMany ==
    \E c \in TraversalCollections, q \in TraversalQueries :
        LET n == NewObjects(heap, PName)
            r == update_many_object(n.heap, lists, c, q, n.a)
        IN  TraversalStep(r.heap, r.lists, cursor)

TraversalDelete ==
    \E c \in TraversalCollections, q \in TraversalQueries :
        LET r == delete_object(heap, lists, c, q)
        IN  TraversalStep(r.heap, r.lists, cursor)

NextTraversal ==
    \/ TraversalFind
    \/ TraversalNext
    \/ TraversalClose
    \/ TraversalStart
    \/ TraversalStop
    \/ TraversalInsertOne
    \/ TraversalInsert
    \/ TraversalUpsertOne
    \/ TraversalUpdateMany
    \/ TraversalDelete

SpecTraversal == Init /\ [][NextTraversal]_vars

-----------------------------------------------------------------------------
(* Concurrent callers.  insert_one and upsert_one are coroutines: calling
   one creates it, an event loop runs it, and it gives way to another
   coroutine only where its body awaits.  Their bodies hold no await. *)

\* the places of the body of op at which it awaits: none
AwaitPoints_checked(op) == {"checked"}

AwaitPoints(op) == {}

TaskCollection == "users"
\* two records with the same _id
TaskDocuments == {Alice, Bob}
\* the query of the upsert_one calls: no record matches it
QNobody == Dict(<< <<"name", Str("Nobody")>> >>)

\* the coroutine task run on store d until it awaits or ends
RunTask(d, task) ==
    LET c == TaskCollection
        d1 == WithCollection(d, c)
        whole == IF task.op = "insert_one" THEN insert_one(d, c, task.document)
                 ELSE upsert_one(d, c, task.document, QNobody)
        appended == [d1 EXCEPT ![c] = Append(@, deepcopy(task.document))]
    IN  IF task.pc = "checked"
        THEN [db |-> appended, task |-> [task EXCEPT !.pc = "done"]]
        ELSE IF "checked" \in AwaitPoints(task.op)
                  /\ whole.raised = ""
                  /\ ~(task.op = "upsert_one" /\ FirstStop(d1[c], QNobody) <= Len(d1[c]))
             THEN [db |-> d1, task |-> [task EXCEPT !.pc = "checked"]]
             ELSE [db |-> whole.db,
                   task |-> [task EXCEPT !.pc = "done", !.raised = whole.raised]]

\* a caller calls insert_one or upsert_one: the coroutine is created
TaskCall ==
    \E t \in Callers, op \in {"insert_one", "upsert_one"}, document \in TaskDocuments :
        /\ tasks[t].pc = "none"
        /\ tasks' = [tasks EXCEPT ![t] = [NoTask EXCEPT !.pc = "created", !.op = op,
                                                         !.document = document]]
        /\ UNCHANGED <<valueVars, objectVars, cursor, attrs>>

\* the event loop runs a coroutine to its next await, or to its end
TaskRun ==
    \E t \in Callers :
        /\ tasks[t].pc \in {"created", "checked"}
        /\ LET r == RunTask(db, tasks[t])
           IN  /\ db' = r.db
               /\ tasks' = [tasks EXCEPT ![t] = r.task]
        /\ UNCHANGED <<last, prev, objectVars, cursor, attrs>>

NextTasks ==
    \/ TaskCall
    \/ TaskRun

SpecTasks == Init /\ [][NextTasks]_vars

-----------------------------------------------------------------------------
(* The instances of the class.  db is an attribute of the class; self.db is
   the attribute db of the instance if it has one, and the one of the class
   otherwise.  cls is the db of the class, own the attributes of the
   instances. *)

\* self.db, read through instance m
Resolve(cls, own, m) == IF own[m].has THEN own[m].db ELSE cls

\* the store d, reached as self.db through m, has become d2 (self.db[c] = ...,
\* self.db[c].append(...): the mapping itself is changed, whoever holds it)
Written_through(cls, own, m, d2) ==
    IF own[m].has THEN [cls |-> cls, own |-> [own EXCEPT ![m].db = d2]]
    ELSE [cls |-> d2, own |-> own]

\* start assigning self.db = {}
start_instance_self(cls, own, m) ==
    [cls |-> cls, own |-> [own EXCEPT ![m] = [has |-> TRUE, db |-> <<>>]]]

\* start: LocalSymbolicMemory.db = {}
start_instance(cls, own, m) == [cls |-> <<>>, own |-> own]

\* stop: LocalSymbolicMemory.db = {}
stop_instance(cls, own, m) == [cls |-> <<>>, own |-> own]

\* one call through instance m that leaves class and instances as w
InstanceStep(m, w, call) ==
    /\ last = NoCall
    /\ \A x \in Instances : Total(Resolve(w.cls, w.own, x)) <= MaxDocs
    /\ db' = w.cls
    /\ attrs' = w.own
    /\ prev' = db
    /\ last' = [call EXCEPT !.self = m]
    /\ UNCHANGED <<objectVars, cursor, tasks>>

InstanceStart ==
    \E m \in Instances :
        InstanceStep(m, start_instance(db, attrs, m),
                     Call("start", "", None, <<>>, None, None, start(db)))

InstanceStop ==
    \E m \in Instances :
        InstanceStep(m, stop_instance(db, attrs, m),
                     Call("stop", "", None, <<>>, None, None, stop(db)))

InstanceInsertOne ==
    \E m \in Instances, c \in Collections, document \in Documents :
        LET r == insert_one(Resolve(db, attrs, m), c, document)
        IN  InstanceStep(m, Written_through(db, attrs, m, r.db),
                         Call("insert_one", c, document, <<>>, None, None, r))

InstanceCount ==
    \E m \in Instances, c \in Collections, q \in Queries :
        LET r == count(Resolve(db, attrs, m), c, q)
        IN  InstanceStep(m, Written_through(db, attrs, m, r.db),
                         Call("count", c, None, <<>>, q, None, r))

InstanceFindOne ==
    \E m \in Instances, c \in Collections, q \in Queries :
        LET r == find_one(Resolve(db, attrs, m), c, q)
        IN  InstanceStep(m, Written_through(db, attrs, m, r.db),
                         Call("find_one", c, None, <<>>, q, None, r))

NextInstances ==
    \/ InstanceStart
    \/ InstanceStop
    \/ InstanceInsertOne
    \/ InstanceCount
    \/ InstanceFindOne
    \/ Return

SpecInstances == Init /\ [][NextInstances]_vars

-----------------------------------------------------------------------------
(* Vocabulary of the properties *)

\* the documents of collection c in store d; none when d has no such collection
Stored(d, c) == IF c \in DOMAIN d THEN d[c] ELSE <<>>

\* the _id of a document, None when it has none
IdOf(document) == Get(document, "_id")
HasId(document) == IdOf(document).t # "none"
SameId(a, b) == PyEq(IdOf(a), IdOf(b))

\* some document of docs has the _id of document
Holds(docs, document) == \E i \in 1..Len(docs) : SameId(docs[i], document)

\* the places of docs whose document matches query under the recursive predicate
Hits(docs, query) == {i \in 1..Len(docs) : _matches_query(docs[i], query) = "T"}
\* the same under the flat predicate
FlatHits(docs, query) == {i \in 1..Len(docs) : FlatMatch(docs[i], query)}

\* the store is as it was before the last call, collection by collection
SameContents == \A c \in Collections : Stored(db, c) = Stored(prev, c)

-----------------------------------------------------------------------------
(* C1: starting from an empty store, after any sequence of insert_one, insert,
   upsert_one and delete calls, no collection holds two documents with the
   same non-null _id. *)
IdentityUnique ==
    \A c \in DOMAIN db : \A i, j \in 1..Len(db[c]) :
        (i # j /\ HasId(db[c][i])) => ~SameId(db[c][i], db[c][j])

(* C2: a batch insert is all-or-nothing: if any document of the batch, at any
   position, has the _id of a document already in c, insert raises
   DuplicateKeyError and the store is exactly what it was. *)
BatchAllOrNothing ==
    (/\ last.op = "insert"
     /\ \E j \in 1..Len(last.documents) : Holds(Stored(prev, last.c), last.documents[j]))
    => (last.raised = "DuplicateKeyError" /\ db = prev)

\* a batch whose last document alone collides was refused
BatchAllOrNothingWitness ==
    /\ last.op = "insert"
    /\ Len(last.documents) = 2
    /\ ~Holds(Stored(prev, last.c), last.documents[1])
    /\ Holds(Stored(prev, last.c), last.documents[2])
    /\ last.raised = "DuplicateKeyError"

(* C3: inserting two documents with the same _id into one collection raises
   DuplicateKeyError in both forms: the second of two insert_one calls
   fails, and one insert whose batch holds both fails and leaves the
   collection unchanged. *)
SameIdTwiceFails ==
    /\ (last.op = "insert_one" /\ Holds(Stored(prev, last.c), last.document))
           => last.raised = "DuplicateKeyError"
    /\ (/\ last.op = "insert"
        /\ \E i, j \in 1..Len(last.documents) :
              i # j /\ SameId(last.documents[i], last.documents[j]))
           => (/\ last.raised = "DuplicateKeyError"
               /\ Stored(db, last.c) = Stored(prev, last.c))

(* C4: insert_one(c, r), and upsert_one(c, r, q) when no document of c
   matches q, raise DuplicateKeyError whenever c already holds a document
   with r's _id (r.get("_id"), None for a document without one), and then
   every collection is as before; otherwise r is added as the last
   document of c, which grows by exactly one. *)
InsertOneContract ==
    (\/ last.op = "insert_one"
     \/ /\ last.op = "upsert_one"
        /\ \A i \in 1..Len(Stored(prev, last.c)) :
              _matches_query(Stored(prev, last.c)[i], last.query) = "F")
    => IF Holds(Stored(prev, last.c), last.document)
       THEN last.raised = "DuplicateKeyError" /\ SameContents
       ELSE /\ last.raised = ""
            /\ Stored(db, last.c) = Append(Stored(prev, last.c), last.document)
            /\ Len(Stored(db, last.c)) = Len(Stored(prev, last.c)) + 1

\* an upsert_one that matched nothing was refused for its _id
InsertOneContractWitness ==
    /\ last.op = "upsert_one"
    /\ Stored(prev, last.c) # <<>>
    /\ Hits(Stored(prev, last.c), last.query) = {}
    /\ HasId(last.document)
    /\ last.raised = "DuplicateKeyError"

(* C5: round trip: after insert_one(c, r) succeeds for an r with a non-null
   _id that no document of c held, find_one(c, {_id: r._id}) returns a
   document equal to r and find(c, {_id: r._id}) yields one. *)
RoundTrip ==
    (/\ last.op = "insert_one"
     /\ last.raised = ""
     /\ HasId(last.document)
     /\ ~Holds(Stored(prev, last.c), last.document))
    => LET q == IdQuery(last.document)
           one == find_one(db, last.c, q)
           all == find(db, last.c, q, None)
       IN  /\ one.raised = ""
           /\ Len(one.out) = 1
           /\ PyEq(one.out[1], last.document)
           /\ \E i \in 1..Len(all.out) : PyEq(all.out[i], last.document)

(* C7: on an empty store, after insert_one("users", Alice) with Alice =
   {_id: "u1", name: "Alice", address: {city: "NYC"}}, find_one("users",
   {address: {city: "NYC"}}) returns Alice, and a following delete("users",
   {address: {city: "NYC"}}) does not remove it.  NestedScenarioKept states
   the claim; NestedScenarioRemoved the same with delete removing Alice, the
   query's mapping being equal to the stored one. *)
OnlyAlice == "users" :> <<Alice>>

InNestedScenario(op) ==
    /\ last.op = op
    /\ last.c = "users"
    /\ last.query = QCity
    /\ prev = OnlyAlice

NestedScenarioKept ==
    /\ InNestedScenario("find_one") => last.out = <<Alice>>
    /\ InNestedScenario("delete") => Stored(db, "users") = <<Alice>>

NestedScenarioRemoved ==
    /\ InNestedScenario("find_one") => last.out = <<Alice>>
    /\ InNestedScenario("delete") => db = ("users" :> <<>>)

NestedScenarioWitness == InNestedScenario("delete") /\ last.raised = ""

(* C8: upsert_one(c, r, q): if a document of c matches q under the recursive
   predicate, the first such document, and no other, is replaced by r at
   its place (the length of c and every other document stay); if none
   matches and c holds no document with r's _id, r is added at the end and
   c grows by exactly one. *)
UpsertContract ==
    last.op = "upsert_one" =>
        LET old == Stored(prev, last.c)
            new == Stored(db, last.c)
            H == Hits(old, last.query)
        IN  IF H # {}
            THEN /\ last.raised = ""
                 /\ Len(new) = Len(old)
                 /\ \A i \in 1..Len(old) :
                       new[i] = IF i \in H /\ \A j \in H : i <= j
                                THEN last.document ELSE old[i]
            ELSE ~Holds(old, last.document) =>
                    /\ last.raised = ""
                    /\ Len(new) = Len(old) + 1
                    /\ new = Append(old, last.document)

\* two documents matched, the replacement differs from both
UpsertContractWitness ==
    /\ last.op = "upsert_one"
    /\ Cardinality(Hits(Stored(prev, last.c), last.query)) = 2
    /\ \A i \in 1..Len(Stored(prev, last.c)) : Stored(prev, last.c)[i] # last.document

(* C9: update_many(c, q, p) changes exactly the documents of c that match q
   under the recursive predicate: each has afterwards every field of p with
   p's value and its other fields as before; the other documents, the
   length and the order of c stay.  When p overwrites a field that q
   constrains with another value, count(c, q) is 0 afterwards, and
   count(c, p) grows by the number of documents that matched q
   (UpdateManyGrowsByHits), or by the number of those that did not match p
   before (UpdateManyGrowsByNewHits). *)
Patched(old, new, p) ==
    /\ Keys(new) = Keys(old) \cup Keys(p)
    /\ \A k \in Keys(p) : PyEq(Item(new, k), Item(p, k))
    /\ \A k \in Keys(old) \ Keys(p) : Item(new, k) = Item(old, k)

UpdateManyEffect ==
    LET old == Stored(prev, last.c)
        new == Stored(db, last.c)
        H == Hits(old, last.query)
    IN  /\ Len(new) = Len(old)
        /\ \A i \in 1..Len(old) :
              IF i \in H THEN Patched(old[i], new[i], last.patch) ELSE new[i] = old[i]

Overwrites(q, p) ==
    \E k \in Keys(q) \cap Keys(p) : ~PyEq(Item(q, k), Item(p, k))

UpdateManyGrowsByHits ==
    last.op = "update_many" =>
        /\ UpdateManyEffect
        /\ Overwrites(last.query, last.patch) =>
              /\ count(db, last.c, last.query).n = 0
              /\ count(db, last.c, last.patch).n =
                    count(prev, last.c, last.patch).n
                    + Cardinality(Hits(Stored(prev, last.c), last.query))

UpdateManyGrowsByNewHits ==
    last.op = "update_many" =>
        /\ UpdateManyEffect
        /\ Overwrites(last.query, last.patch) =>
              /\ count(db, last.c, last.query).n = 0
              /\ count(db, last.c, last.patch).n =
                    count(prev, last.c, last.patch).n
                    + Cardinality(Hits(Stored(prev, last.c), last.query)
                                  \ FlatHits(Stored(prev, last.c), last.patch))

\* a patch that overwrote a queried field changed one document of two
UpdateManyWitness ==
    /\ last.op = "update_many"
    /\ Overwrites(last.query, last.patch)
    /\ Len(Stored(prev, last.c)) = 2
    /\ Cardinality(Hits(Stored(prev, last.c), last.query)) = 1
    /\ db # prev

(* C10: delete(c, q) removes exactly the documents of c that match q under
   the flat predicate and keeps the others in their order; so count(c, q)
   is 0 right after it, and delete(c, {}) leaves c empty. *)
DeleteContract ==
    last.op = "delete" =>
        LET old == Stored(prev, last.c)
            new == Stored(db, last.c)
            Kept == {i \in 1..Len(old) : i \notin FlatHits(old, last.query)}
            KeptAt(j) == CHOOSE i \in Kept : Cardinality({x \in Kept : x <= i}) = j
        IN  /\ Len(new) = Cardinality(Kept)
            /\ \A j \in 1..Len(new) : new[j] = old[KeptAt(j)]
            /\ count(db, last.c, last.query).n = 0
            /\ last.query = QAll => (new = <<>> /\ count(db, last.c, QAll).n = 0)

\* one document of two was removed
DeleteContractWitness ==
    /\ last.op = "delete"
    /\ last.query # QAll
    /\ Len(Stored(prev, last.c)) = 2
    /\ Len(Stored(db, last.c)) = 1

(* C6: isolation: no object of the store is one the caller holds or can
   reach, and when the caller changes an object it was returned by find_one
   or find, or one it passed to insert_one, insert, upsert_one or
   update_many, at any depth, every following find_one, find and count
   returns what it returned before. *)
Isolation ==
    /\ Reach(heap, {lists[c] : c \in Collections} \ {0})
         \cap Reach(heap, {held[i].a : i \in 1..Len(held)}) = {}
    /\ step.op = "mutate" =>
          \A c \in Collections, q \in Queries :
              LET now == View(heap, lists)
              IN  /\ find_one(now, c, q).out = find_one(seen, c, q).out
                  /\ find(now, c, q, None).out = find(seen, c, q, None).out
                  /\ count(now, c, q).n = count(seen, c, q).n

\* the caller changed an object inside one it had passed to the store,
\* which holds documents
IsolationWitness ==
    /\ step.op = "mutate"
    /\ step.tag = "passed"
    /\ step.nested
    /\ \E c \in Collections : ListValues(heap, lists, c) # <<>>

\* the same for an object inside a document the store returned
IsolationReturnedWitness ==
    /\ step.op = "mutate"
    /\ step.tag = "returned"
    /\ step.nested

-----------------------------------------------------------------------------
(* C11: whenever find is given a projection mapping, the empty one and one
   whose flags are all off included, each record it yields holds exactly the
   fields of the stored record that the projection names with the flag 1, in
   the stored record's order, and no other field. *)
Projected(doc, projection) ==
    Dict(SelectSeq(doc.m, LAMBDA kv :
            \E j \in 1..Len(projection.m) :
                projection.m[j][1] = kv[1] /\ projection.m[j][2] = Int("1")))

ProjectionOnly ==
    (last.op = "find" /\ last.projection.t = "dict" /\ last.raised = "") =>
        LET hits == Matching(Stored(prev, last.c), last.query)
        IN  /\ Len(last.out) = Len(hits)
            /\ \A i \in 1..Len(hits) : last.out[i] = Projected(hits[i], last.projection)

\* the same for the projections that hold at least one field
ProjectionOnlyNonEmpty ==
    (last.op = "find" /\ last.projection.t = "dict" /\ last.projection.m # <<>>) =>
        LET hits == Matching(Stored(prev, last.c), last.query)
        IN  /\ Len(last.out) = Len(hits)
            /\ \A i \in 1..Len(hits) : last.out[i] = Projected(hits[i], last.projection)

-----------------------------------------------------------------------------
(* C12: not finding is never a failure.  Whatever the store holds and
   whatever mapping the query is (a nested mapping where a stored record
   holds a scalar or None included), find, find_one, count, update_many and
   delete raise nothing, and no operation raises anything but DuplicateKey. *)
NotFoundNeverFails ==
    /\ last.raised \in {"", "DuplicateKeyError"}
    /\ last.op \in {"find", "find_one", "count", "update_many", "delete"} => last.raised = ""

-----------------------------------------------------------------------------
(* C13: on a collection the store does not hold, count returns 0, find
   yields nothing, find_one returns None, update_many and delete change
   nothing; and count, find and find_one never change the store: the same
   collections, the same records in the same order. *)
SameStore == DOMAIN db = DOMAIN prev /\ SameContents

MissingCollectionAndFrame ==
    /\ last.op \in {"count", "find", "find_one"} => SameStore
    /\ (/\ last.op \in {"count", "find", "find_one", "update_many", "delete"}
        /\ last.c \notin DOMAIN prev)
          => /\ last.raised = ""
             /\ last.n = 0
             /\ last.out = <<>>
             /\ SameStore

\* a read of a missing collection while another collection holds records
MissingCollectionWitness ==
    /\ last.op \in {"count", "find", "find_one"}
    /\ last.c \notin DOMAIN prev
    /\ Total(prev) > 0
    /\ SameStore

-----------------------------------------------------------------------------
(* C14: find is consistent under interleaving.  When other operations run
   between the elements of one traversal find(c, q), what the traversal has
   yielded at its end is the list of the records of c matching q as c was
   when the traversal started. *)
TraversalIsSnapshot ==
    (cursor.pc = "done" /\ cursor.raised = "") => cursor.out = cursor.snap

-----------------------------------------------------------------------------
(* C15: concurrent insert_one / upsert_one (no-match branch) calls for
   records with the same _id, interleaved where coroutines can be: no
   call is between its check and its append when another call runs; as soon
   as a call has ended exactly one call has succeeded, every other ended call
   has failed with DuplicateKey, and the collection holds one record with
   that _id. *)
Ended == {t \in Callers : tasks[t].pc = "done"}

WritesAtomic ==
    /\ \A t \in Callers : tasks[t].pc # "checked"
    /\ Ended # {} =>
          /\ Cardinality({t \in Ended : tasks[t].raised = ""}) = 1
          /\ \A t \in Ended : tasks[t].raised \in {"", "DuplicateKeyError"}
          /\ Len(Stored(db, TaskCollection)) = 1
    /\ \A i, j \in 1..Len(Stored(db, TaskCollection)) :
          SameId(Stored(db, TaskCollection)[i], Stored(db, TaskCollection)[j]) => i = j

\* three calls have ended, both operations among them
WritesAtomicWitness ==
    /\ Ended = Callers
    /\ \E t, u \in Callers : tasks[t].op = "insert_one" /\ tasks[u].op = "upsert_one"
    /\ \E t \in Callers : tasks[t].raised = "DuplicateKeyError"

-----------------------------------------------------------------------------
(* C16: one store for all instances.  A record written through one instance
   is seen by reads through every instance; start or stop on any instance
   empties every collection for all of them: right after it every count is 0,
   every find_one returns None, and a record whose _id was stored before can
   be inserted again without DuplicateKey. *)
Through(m) == Resolve(db, attrs, m)

SharedAndReset ==
    /\ \A m \in Instances, c \in Collections :
          /\ (c \in DOMAIN Through(m)) = (c \in DOMAIN db)
          /\ Stored(Through(m), c) = Stored(db, c)
    /\ (last.op = "insert_one" /\ last.raised = "") =>
          \A m \in Instances :
              LET docs == find(Through(m), last.c, QAll, None).out
              IN  /\ docs # <<>>
                  /\ docs[Len(docs)] = last.document
                  /\ count(Through(m), last.c, QAll).n = Len(Stored(prev, last.c)) + 1
    /\ last.op \in {"start", "stop"} =>
          \A m \in Instances, c \in Collections :
              /\ \A q \in Queries :
                    /\ count(Through(m), c, q).n = 0
                    /\ find_one(Through(m), c, q).out = <<>>
              /\ \A document \in Documents : insert_one(Through(m), c, document).raised = ""

\* a reset through the second instance of a store that holds a record with an _id
SharedAndResetWitness ==
    /\ last.op \in {"start", "stop"}
    /\ last.self = "m2"
    /\ \E c \in Collections :
          \E i \in 1..Len(Stored(prev, c)) : HasId(Stored(prev, c)[i])

-----------------------------------------------------------------------------
(* C17: uniqueness is about non-null _id values only.  insert_one, and the
   no-match branch of upsert_one, of a record without an _id succeeds and
   appends it, whatever the collection holds; every DuplicateKey comes from
   two equal non-null _id values. *)
CollidesWith(docs, document) == HasId(document) /\ Holds(docs, document)

NoIdentityNeverCollides ==
    /\ (last.op = "insert_one" /\ ~HasId(last.document)) =>
          /\ last.raised = ""
          /\ Stored(db, last.c) = Append(Stored(prev, last.c), last.document)
    /\ (last.op \in {"insert_one", "upsert_one"} /\ last.raised = "DuplicateKeyError") =>
          CollidesWith(Stored(prev, last.c), last.document)
    /\ (last.op = "insert" /\ last.raised = "DuplicateKeyError") =>
          \E j \in 1..Len(last.documents) :
              CollidesWith(Stored(prev, last.c), last.documents[j])

-----------------------------------------------------------------------------
(* C18: order.  After an insert that passed its check the collection is its
   previous sequence of records followed by the records of the batch in batch
   order, and find(c, {}) yields them in that order; the same for a
   successful insert_one, so that a collection built by inserts is in the
   order of the inserts. *)
InsertKeepsOrder ==
    /\ (last.op = "insert" /\ last.raised = "") =>
          /\ Stored(db, last.c) = Stored(prev, last.c) \o last.documents
          /\ find(db, last.c, QAll, None).out = Stored(prev, last.c) \o last.documents
    /\ (last.op = "insert_one" /\ last.raised = "") =>
          /\ Stored(db, last.c) = Append(Stored(prev, last.c), last.document)
          /\ find(db, last.c, QAll, None).out = Append(Stored(prev, last.c), last.document)

\* a batch of two different records has been inserted
InsertKeepsOrderWitness ==
    /\ last.op = "insert"
    /\ last.raised = ""
    /\ Len(last.documents) >= 2
    /\ last.documents[1] # last.documents[2]
    /\ Len(Stored(db, last.c)) = Len(Stored(prev, last.c)) + Len(last.documents)

-----------------------------------------------------------------------------
(* C19: the two predicates on a partial nested query.  For a stored record
   whose value under k is a mapping m, and the query {k: m'} with m' a strict
   sub-mapping of m (fewer fields, equal values): find yields the record,
   find_one finds a record, upsert_one replaces a record, update_many
   patches the record; count does not count it and delete leaves it. *)
StrictSubMapping(sub, m) ==
    /\ sub.t = "dict"
    /\ m.t = "dict"
    /\ Keys(sub) \subseteq Keys(m)
    /\ Keys(sub) # Keys(m)
    /\ \A k \in Keys(sub) : PyEq(Item(sub, k), Item(m, k))

PartialOn(doc, query) ==
    /\ Len(query.m) = 1
    /\ query.m[1][1] \in Keys(doc)
    /\ StrictSubMapping(query.m[1][2], Item(doc, query.m[1][1]))

Partials(docs, query) ==
    IF query.t # "dict" THEN {} ELSE {i \in 1..Len(docs) : PartialOn(docs[i], query)}

PartialNestedDivergence ==
    LET old == Stored(prev, last.c)
        new == Stored(db, last.c)
        q == last.query
        Part == Partials(old, q)
        Kept == {i \in 1..Len(old) : i \notin FlatHits(old, q)}
        KeptAt(j) == CHOOSE i \in Kept : Cardinality({x \in Kept : x <= i}) = j
    IN  Part # {} =>
          /\ \A i \in Part : _matches_query(old[i], q) = "T" /\ ~FlatMatch(old[i], q)
          /\ last.op = "find" =>
                \A i \in Part : \E j \in 1..Len(last.out) : last.out[j] = old[i]
          /\ last.op = "find_one" =>
                /\ last.out # <<>>
                /\ \E i \in 1..Len(old) : (\A p \in Part : i <= p) /\ last.out[1] = old[i]
          /\ last.op = "upsert_one" =>
                /\ last.raised = ""
                /\ Len(new) = Len(old)
                /\ \E i \in 1..Len(old) :
                      /\ \A p \in Part : i <= p
                      /\ new[i] = last.document
                      /\ \A j \in 1..Len(old) : j # i => new[j] = old[j]
          /\ last.op = "update_many" =>
                \A i \in Part : Patched(old[i], new[i], last.patch)
          /\ last.op = "count" => last.n = Cardinality(FlatHits(old, q) \ Part)
          /\ last.op = "delete" =>
                /\ Part \subseteq Kept
                /\ Len(new) = Cardinality(Kept)
                /\ \A j \in 1..Len(new) : new[j] = old[KeptAt(j)]

\* of two records whose address holds the queried city, delete removed the
\* one whose address is just that and left the one with a further field
PartialNestedWitness ==
    /\ last.op = "delete"
    /\ Partials(Stored(prev, last.c), last.query) # {}
    /\ Len(Stored(prev, last.c)) = 2
    /\ Len(Stored(db, last.c)) = 1

-----------------------------------------------------------------------------
(* C20: the flat predicate refines the recursive one.  A record that matches
   a query under the flat predicate matches it under the recursive one; so
   in every state count(c, q) is at most the number of records find(c, q)
   yields, and equal to it when no value of q is a mapping, and every record
   that delete(c, q) would remove is one that find(c, q) yields. *)
HasMappingValue(query) == \E i \in 1..Len(query.m) : query.m[i][2].t = "dict"

FlatRefinesRecursive ==
    \A c \in Collections, q \in Queries :
        LET docs == Stored(db, c)
            found == find(db, c, q, None).out
            n == count(db, c, q).n
        IN  /\ \A i \in 1..Len(docs) :
                  FlatMatch(docs[i], q) => _matches_query(docs[i], q) = "T"
            /\ n <= Len(found)
            /\ ~HasMappingValue(q) => n = Len(found)
            /\ \A i \in 1..Len(docs) :
                  FlatMatch(docs[i], q) => \E j \in 1..Len(found) : found[j] = docs[i]

====
